---- MODULE Spec2Model ----
(***************************************************************************)
(* A model of audio_read (src/src/reader.rs) running against its decode    *)
(* engine (symphonia's FormatReader and Decoder).  The engine is the       *)
(* environment: a stream of total_frames frames with `channels` channels,  *)
(* delivered in packets of any sizes, interleaved with packets of other    *)
(* tracks, ResetRequired results, a clean end of stream and errors.        *)
(*                                                                         *)
(* And a model of audio_write (src/src/writer.rs) running against its      *)
(* container writer (hound's WavWriter), called on an audio block of any   *)
(* samples or, as the round trip tests do, on what audio_read returned,    *)
(* the written file then being read back.                                  *)
(***************************************************************************)
EXTENDS Integers, Sequences, FiniteSets, TLC

\* ------------------------------------------------------------------ bounds
MaxFrames == 3
MaxChannels == 2
MaxPacket == 2
MaxSecs == 1
MaxExtras == 1
SampleRate == 1
TicksPerFrame == 2
MaxJitter == 1
FloatScale == 2
FloatRange == 4

\* Option<T>: None is the empty sequence, Some(x) the one-element sequence.
None == << >>
Some(x) == << x >>
IsSome(o) == Len(o) = 1
IsNone(o) == Len(o) = 0
Unwrap(o) == o[1]
UnwrapOr(o, d) == IF IsSome(o) THEN o[1] ELSE d

\* ------------------------------------------------------------------ inputs
\* std::time::Duration with a resolution of half a second: as_secs_f64() is
\* secs + halves / 2, exact in f64.
Durations == [secs : 0 .. MaxSecs, halves : 0 .. 1]

Beginning == [kind |-> "Beginning"]
End == [kind |-> "End"]
TimeOf(d) == [kind |-> "Time", duration |-> d]
FrameOf(f) == [kind |-> "Frame", frame |-> f]

Starts == {Beginning} \cup {TimeOf(d) : d \in Durations}
             \cup {FrameOf(f) : f \in 0 .. MaxFrames}
Stops == {End} \cup {TimeOf(d) : d \in Durations}
             \cup {FrameOf(f) : f \in 0 .. MaxFrames}
ChannelOptions == {None} \cup {Some(c) : c \in 0 .. MaxChannels}

AudioReadConfig == [start : Starts, stop : Stops,
                    first_channel : ChannelOptions, last_channel : ChannelOptions]

\* The config before the call and after audio_read has taken its fields.
NoConfig == [kind |-> "NoConfig"]

\* ------------------------------------------------------------ the stream
\* The sample of channel c of frame f: every sample of the stream is distinct.
StreamSample(f, c) == f * (MaxChannels + 1) + c + 1

\* The decoded, interleaved samples of the frames [from, from + n) with C channels.
Interleaved(from, n, C) ==
    [i \in 1 .. n * C |-> StreamSample(from + ((i - 1) \div C), (i - 1) % C)]

VARIABLES
    channels,        \* the stream: channel count of the decoded spec
    total_frames,    \* the stream: number of frames until end of stream
    time_base,       \* the track's codec_params.time_base: None or Some(denom)
    epos,            \* the engine: index of the next frame next_packet delivers
    seek_pos,        \* the engine: Some(frame) a successful seek repositioned it at
    resets,          \* the engine: ResetRequired results delivered so far
    foreign,         \* the engine: packets of other tracks delivered so far
    jittered,        \* the engine: packets delivered so far with a timestamp that is
                     \* late (resets + foreign + jittered is bounded by MaxExtras)
    pc,              \* audio_read: "call", "seek", "loop" or "done"
    config,          \* audio_read: the config argument
    start_frame,
    end_frame,
    start_channel,
    end_channel,
    num_channels,
    sample_buf,      \* Some(channel count of its spec) once the SampleBuffer exists
    current_sample,
    samples,
    result,          \* what audio_read returned, or how it aborted
    calls,           \* calls issued to the engine: seek, next_packet, decode
    harness,         \* the round trip: "read" (data1) or "read back" (data2)
    data1,           \* the round trip: Some(what the first audio_read returned)
    wpc,             \* audio_write: "idle", "create", "samples" or "done"
    wargs,           \* audio_write: audio_block (its sizes), sample_rate, config
    writer,          \* Some(the WavWriter: its spec, samples taken, finalization)
    written,         \* the << frame, channel >> of every write_sample call so far
    last_write,      \* Some(the sample and the value of the last write_sample call)
    wresult          \* what audio_write returned

wvars == << harness, data1, wpc, wargs, writer, written, last_write, wresult >>

vars == << channels, total_frames, time_base, epos, seek_pos, resets, foreign, jittered,
           pc, config,
           start_frame, end_frame, start_channel, end_channel, num_channels,
           sample_buf, current_sample, samples, result, calls, wvars >>

env == << channels, total_frames, time_base >>

NoArgs == [kind |-> "NoArgs"]

NoResult == [kind |-> "none"]
Err(e, args) == [kind |-> "Err", error |-> e, args |-> args]
Panic(p) == [kind |-> "Panic", reason |-> p]
AudioData(sr, nc, nf, s) ==
    [kind |-> "Ok", sample_rate |-> sr, num_channels |-> nc, num_frames |-> nf,
     interleaved_samples |-> s]

Init ==
    /\ channels \in 1 .. MaxChannels
    /\ total_frames \in 0 .. MaxFrames
    /\ time_base \in {None, Some(SampleRate * TicksPerFrame)}
    /\ epos = 0
    /\ seek_pos = None
    /\ resets = 0
    /\ foreign = 0
    /\ jittered = 0
    /\ pc = "call"
    /\ config = NoConfig
    /\ start_frame = 0
    /\ end_frame = None
    /\ start_channel = None
    /\ end_channel = None
    /\ num_channels = 0
    /\ sample_buf = None
    /\ current_sample = None
    /\ samples = << >>
    /\ result = NoResult
    /\ calls = [seek |-> 0, seek_ts |-> None, next_packet |-> 0, decode |-> 0]
    /\ harness = "read"
    /\ data1 = None
    /\ wpc = "idle"
    /\ wargs = NoArgs
    /\ writer = None
    /\ written = << >>
    /\ last_write = None
    /\ wresult = NoResult

\* ------------------------------------------------- lines 96-156: resolution
\* A mutant of TimeToFrame: the product is rounded to the nearest frame.
TimeToFrameRounded(d) == ((2 * d.secs + d.halves) * SampleRate + 1) \div 2

\* (secs * sample_rate as f64) as usize, with secs = duration.as_secs_f64().
TimeToFrame(d) == ((2 * d.secs + d.halves) * SampleRate) \div 2

StartFrame(start) ==
    CASE start.kind = "Beginning" -> 0
      [] start.kind = "Time" -> TimeToFrame(start.duration)
      [] start.kind = "Frame" -> start.frame

EndFrame(stop) ==
    CASE stop.kind = "End" -> None
      [] stop.kind = "Time" -> Some(TimeToFrame(stop.duration))
      [] stop.kind = "Frame" -> Some(stop.frame)

\* A mutant of RangeError: the comparison is off by one frame.
RangeErrorOffByOne(sf, ef) ==
    IF IsSome(ef) /\ sf > Unwrap(ef) + 1
    THEN Some(Err("EndFrameLargerThanStartFrame", << Unwrap(ef), sf >>))
    ELSE None

\* if let Some(end_frame) = end_frame { if start_frame > end_frame { return Err } }
RangeError(sf, ef) ==
    IF IsSome(ef) /\ sf > Unwrap(ef)
    THEN Some(Err("EndFrameLargerThanStartFrame", << Unwrap(ef), sf >>))
    ELSE None

\* File::open, the probe, the track lookup or the sample rate lookup fails.
OpenError ==
    /\ pc = "call"
    /\ \E e \in {"FileError", "EncodingError", "NoTrack", "NoSampleRate"} :
          result' = Err(e, << >>)
    /\ pc' = "done"
    /\ UNCHANGED << env, wvars, epos, seek_pos, resets, foreign, jittered, config,
                    start_frame, end_frame, start_channel, end_channel, num_channels,
                    sample_buf, current_sample, samples, calls >>

Resolve(cfg) ==
    /\ pc = "call"
    /\ config' = cfg
    /\ start_frame' = StartFrame(cfg.start)
    /\ end_frame' = EndFrame(cfg.stop)
    /\ LET e == RangeError(StartFrame(cfg.start), EndFrame(cfg.stop))
       IN  IF IsSome(e)
           THEN pc' = "done" /\ result' = Unwrap(e)
           ELSE pc' = "seek" /\ result' = result
    /\ UNCHANGED << env, wvars, epos, seek_pos, resets, foreign, jittered,
                    start_channel, end_channel, num_channels, sample_buf,
                    current_sample, samples, calls >>

\* ------------------------------------------------- lines 158-174: the seek
\* (start_frame as f64 * 0.9) as u64
SeekSample(sf) == (sf * 9) \div 10

\* (seek_sample * tb.denom as u64) / (sample_rate as u64)
SeekTs(sf, denom) == (SeekSample(sf) * denom) \div SampleRate

\* A mutant of SeekPlanned: a seek is planned from start_frame == sample_rate on.
SeekPlannedAtRate(sf, tb) == sf >= SampleRate /\ IsSome(tb)

\* if start_frame > sample_rate as usize { if let Some(tb) = time_base { .. } }
SeekPlanned(sf, tb) == sf > SampleRate /\ IsSome(tb)

\* The timestamp the engine gives the packet that starts at frame p.
PacketTs(p) == IF IsSome(time_base) THEN (p * Unwrap(time_base)) \div SampleRate ELSE p

SeekSkipped ==
    /\ pc = "seek"
    /\ ~SeekPlanned(start_frame, time_base)
    /\ pc' = "make"
    /\ UNCHANGED << env, wvars, epos, seek_pos, resets, foreign, jittered, config,
                    start_frame, end_frame, start_channel, end_channel, num_channels,
                    sample_buf, current_sample, samples, result, calls >>

\* format.seek fails or is unsupported: `let _ =` drops the error.
SeekFailed ==
    /\ pc = "seek"
    /\ SeekPlanned(start_frame, time_base)
    /\ calls' = [calls EXCEPT !.seek = @ + 1,
                              !.seek_ts = Some(SeekTs(start_frame, Unwrap(time_base)))]
    /\ pc' = "make"
    /\ UNCHANGED << env, wvars, epos, seek_pos, resets, foreign, jittered, config,
                    start_frame, end_frame, start_channel, end_channel, num_channels,
                    sample_buf, current_sample, samples, result >>

\* format.seek succeeds: the engine continues with a packet that starts at or
\* before the requested timestamp.
SeekDone(p) ==
    /\ pc = "seek"
    /\ SeekPlanned(start_frame, time_base)
    /\ p \in 0 .. total_frames - 1
    /\ PacketTs(p) <= SeekTs(start_frame, Unwrap(time_base))
    /\ epos' = p
    /\ seek_pos' = Some(p)
    /\ calls' = [calls EXCEPT !.seek = @ + 1,
                              !.seek_ts = Some(SeekTs(start_frame, Unwrap(time_base)))]
    /\ pc' = "make"
    /\ UNCHANGED << env, wvars, resets, foreign, jittered, config, start_frame, end_frame,
                    start_channel, end_channel, num_channels, sample_buf,
                    current_sample, samples, result >>

\* ------------------------------------ lines 176-186: the decoder, the locals
MakeDecoder ==
    /\ pc = "make"
    /\ start_channel' = config.first_channel
    /\ end_channel' = config.last_channel
    /\ config' = NoConfig
    /\ pc' = "loop"
    /\ UNCHANGED << env, wvars, epos, seek_pos, resets, foreign, jittered, start_frame,
                    end_frame, num_channels, sample_buf, current_sample, samples,
                    result, calls >>

\* get_codecs().make(..)? fails.
MakeDecoderError ==
    /\ pc = "make"
    /\ result' = Err("EncodingError", << >>)
    /\ pc' = "done"
    /\ UNCHANGED << env, wvars, epos, seek_pos, resets, foreign, jittered, config,
                    start_frame, end_frame, start_channel, end_channel, num_channels,
                    sample_buf, current_sample, samples, calls >>

\* ----------------------------------------------- lines 188-205: next_packet
NextPacketCalled == [calls EXCEPT !.next_packet = @ + 1]
DecodeCalled == [calls EXCEPT !.next_packet = @ + 1, !.decode = @ + 1]

\* A mutant of NextPacketReset: the ResetRequired arm is missing and the result
\* falls to `Err(err) => return Err(err.into())`.
NextPacketResetSurfaced ==
    /\ pc = "loop"
    /\ resets + foreign + jittered < MaxExtras
    /\ resets' = resets + 1
    /\ calls' = [calls EXCEPT !.next_packet = @ + 1]
    /\ result' = Err("EncodingError", << >>)
    /\ pc' = "done"
    /\ UNCHANGED << env, wvars, epos, seek_pos, foreign, jittered, config, start_frame,
                    end_frame, start_channel, end_channel, num_channels, sample_buf,
                    current_sample, samples >>

\* Err(Error::ResetRequired) => { decoder.reset(); continue; }
NextPacketReset ==
    /\ pc = "loop"
    /\ resets + foreign + jittered < MaxExtras
    /\ resets' = resets + 1
    /\ calls' = NextPacketCalled
    /\ UNCHANGED << env, wvars, epos, seek_pos, foreign, jittered, pc, config,
                    start_frame, end_frame, start_channel, end_channel, num_channels,
                    sample_buf, current_sample, samples, result >>

\* Err(err) => return Err(err.into())
NextPacketError ==
    /\ pc = "loop"
    /\ calls' = NextPacketCalled
    /\ result' = Err("EncodingError", << >>)
    /\ pc' = "done"
    /\ UNCHANGED << env, wvars, epos, seek_pos, resets, foreign, jittered, config,
                    start_frame, end_frame, start_channel, end_channel, num_channels,
                    sample_buf, current_sample, samples >>

\* A mutant of NextPacketForeign: the packet of the other track is decoded and
\* the position is taken anew from the next packet.
NextPacketForeignDecoded ==
    /\ pc = "loop"
    /\ resets + foreign + jittered < MaxExtras
    /\ foreign' = foreign + 1
    /\ calls' = DecodeCalled
    /\ current_sample' = None
    /\ UNCHANGED << env, wvars, epos, seek_pos, resets, jittered, pc, config,
                    start_frame, end_frame, start_channel, end_channel, num_channels,
                    sample_buf, samples, result >>

\* if packet.track_id() != track_id { continue; }
NextPacketForeign ==
    /\ pc = "loop"
    /\ resets + foreign + jittered < MaxExtras
    /\ foreign' = foreign + 1
    /\ calls' = NextPacketCalled
    /\ UNCHANGED << env, wvars, epos, seek_pos, resets, jittered, pc, config,
                    start_frame, end_frame, start_channel, end_channel, num_channels,
                    sample_buf, current_sample, samples, result >>

\* let decoded = decoder.decode(&packet)?; fails on the next packet of the track
\* (the engine is not followed further: audio_read returns).
DecodeError ==
    /\ pc = "loop"
    /\ epos < total_frames
    /\ calls' = DecodeCalled
    /\ result' = Err("EncodingError", << >>)
    /\ pc' = "done"
    /\ UNCHANGED << env, wvars, epos, seek_pos, resets, foreign, jittered, config,
                    start_frame, end_frame, start_channel, end_channel, num_channels,
                    sample_buf, current_sample, samples >>

\* ------------------------------------------------- usize subtraction, a - b
\* TLC's integers are narrower than usize: UsizeModulus stands for 2^64 and only
\* has to exceed every length and count of the model.
UsizeModulus == 2 ^ 20

\* The outcomes the build can produce: the difference; on underflow a panic
\* (overflow checks on, None here) or the wrapped value (overflow checks off).
SubUsize(a, b) ==
    IF a >= b THEN {Some(a - b)} ELSE {None, Some(a - b + UsizeModulus)}

\* ----------------------------------- lines 207-216: the position of a packet
\* A mutant of PacketPosition: the position is taken from every packet's timestamp.
PacketPositionEveryPacket(cs, ts, tb) ==
    IF IsSome(tb) THEN Some((ts * SampleRate) \div Unwrap(tb))
    ELSE IF IsNone(cs) THEN Some(0) ELSE cs

PacketPosition(cs, ts, tb) ==
    IF IsNone(cs)
    THEN IF IsSome(tb) THEN Some((ts * SampleRate) \div Unwrap(tb)) ELSE Some(0)
    ELSE cs

\* ------------------------------------ lines 226-243: the channel validation
ChannelError(sc, ec, nch) ==
    IF IsSome(sc) /\ Unwrap(sc) >= nch
    THEN Some(Err("InvalidStartChannel", << Unwrap(sc), nch >>))
    ELSE IF IsSome(ec) /\ Unwrap(ec) > nch
    THEN Some(Err("InvalidEndChannel", << Unwrap(ec), nch >>))
    ELSE IF IsSome(ec) /\ IsSome(sc) /\ Unwrap(ec) <= Unwrap(sc)
    THEN Some(Err("EndChannelLargerThanStartChannel", << Unwrap(ec), Unwrap(sc) >>))
    ELSE None

\* ------------------------------------------ lines 263-287 and 292-316: a loop
\* for ch in lo..hi { samples.push(packet_samples[frame_idx * stride + ch]) }:
\* the index is out of range for some ch of the loop.
IndexOutOfRange(packet_samples, frame_idx, stride, lo, hi) ==
    \E ch \in lo .. hi - 1 : frame_idx * stride + ch >= Len(packet_samples)

PushFrame(packet_samples, frame_idx, stride, lo, hi) ==
    [k \in 1 .. hi - lo |-> packet_samples[frame_idx * stride + lo + (k - 1) + 1]]

RECURSIVE FrameLoop(_, _, _, _, _, _, _, _, _, _)
FrameLoop(packet_samples, frames, stride, lo, hi, sf, ef, frame_idx, pos, acc) ==
    IF frame_idx >= frames
    THEN [status |-> "continue", pos |-> pos, samples |-> acc]
    ELSE IF IsSome(ef) /\ pos >= Unwrap(ef)
    THEN [status |-> "return", pos |-> pos, samples |-> acc]
    ELSE IF pos >= sf
    THEN IF IndexOutOfRange(packet_samples, frame_idx, stride, lo, hi)
         THEN [status |-> "panic", pos |-> pos, samples |-> acc]
         ELSE FrameLoop(packet_samples, frames, stride, lo, hi, sf, ef, frame_idx + 1,
                        pos + 1,
                        acc \o PushFrame(packet_samples, frame_idx, stride, lo, hi))
    ELSE FrameLoop(packet_samples, frames, stride, lo, hi, sf, ef, frame_idx + 1,
                   pos + 1, acc)

\* ------------------------------------------- lines 246-321: one decoded packet
\* `let num_channels = ch_end - ch_start;` (line 255) shadows the stream's channel
\* count nch for the rest of the block: the condition of line 258, the frame counts
\* of lines 261 and 290 and the strides of lines 281 and 310 all read nc.
FilterBranch(ch_start, ch_end, nch, nc) == ch_start /= 0 \/ ch_end /= nc

FrameCountDivisor(nch, nc) == nc

FrameStride(nch, nc) == nc

Collect(packet_samples, nch, sc, ec, sf, ef, pos, acc) ==
    LET ch_start == UnwrapOr(sc, 0)
        ch_end == UnwrapOr(ec, nch)
        With(d) ==
            IF IsNone(d)
            THEN [status |-> "panic", reason |-> "subtract with overflow",
                  pos |-> pos, samples |-> acc, nc |-> 0]
            ELSE LET nc == Unwrap(d)
                     divisor == FrameCountDivisor(nch, nc)
                     stride == FrameStride(nch, nc)
                 IN  IF divisor = 0
                     THEN [status |-> "panic", reason |-> "divide by zero",
                           pos |-> pos, samples |-> acc, nc |-> nc]
                     ELSE LET frames == Len(packet_samples) \div divisor
                              r == IF FilterBranch(ch_start, ch_end, nch, nc)
                                   THEN FrameLoop(packet_samples, frames, stride,
                                                  ch_start, ch_end, sf, ef, 0, pos, acc)
                                   ELSE FrameLoop(packet_samples, frames, stride,
                                                  0, nc, sf, ef, 0, pos, acc)
                          IN  [status |-> r.status, reason |-> "index out of bounds",
                               pos |-> r.pos, samples |-> r.samples, nc |-> nc]
    IN  {With(d) : d \in SubUsize(ch_end, ch_start)}

\* A mutant of ProcessPacket: the channel range is validated from the second
\* decoded packet on, after the frames of the first were collected.
ProcessPacketValidatesLate(n, j) ==
    /\ pc = "loop"
    /\ n \in 1 .. MaxPacket
    /\ epos + n <= total_frames
    /\ j \in 0 .. MaxJitter
    /\ j > 0 => IsSome(current_sample) /\ resets + foreign + jittered < MaxExtras
    /\ jittered' = IF j > 0 THEN jittered + 1 ELSE jittered
    /\ epos' = epos + n
    /\ calls' = DecodeCalled
    /\ sample_buf' = IF IsNone(sample_buf) THEN Some(channels) ELSE sample_buf
    /\ num_channels' = IF IsNone(sample_buf) THEN channels ELSE num_channels
    /\ LET packet_samples == Interleaved(epos, n, channels)
           position == PacketPosition(current_sample, PacketTs(epos + j), time_base)
           invalid == IF IsSome(sample_buf)
                      THEN ChannelError(start_channel, end_channel, channels)
                      ELSE None
       IN  IF IsSome(invalid)
           THEN /\ result' = Unwrap(invalid)
                /\ pc' = "done"
                /\ current_sample' = position
                /\ samples' = samples
           ELSE \E o \in Collect(packet_samples, num_channels', start_channel,
                                 end_channel, start_frame, end_frame,
                                 Unwrap(position), samples) :
                    /\ samples' = o.samples
                    /\ CASE o.status = "continue" ->
                              /\ current_sample' = Some(o.pos)
                              /\ pc' = pc
                              /\ result' = result
                         [] o.status = "return" ->
                              /\ current_sample' = position
                              /\ pc' = "done"
                              /\ result' = AudioData(SampleRate, o.nc,
                                                     Len(o.samples) \div o.nc, o.samples)
                         [] o.status = "panic" ->
                              /\ current_sample' = position
                              /\ pc' = "done"
                              /\ result' = Panic(o.reason)
    /\ UNCHANGED << env, wvars, seek_pos, resets, foreign, config, start_frame, end_frame,
                    start_channel, end_channel >>

\* A packet of n frames of the selected track is decoded and processed.  Its
\* timestamp is that of its first frame, or, for a packet after the first one
\* decoded, that of a frame up to MaxJitter frames later (jitter).
ProcessPacket(n, j) ==
    /\ pc = "loop"
    /\ n \in 1 .. MaxPacket
    /\ epos + n <= total_frames
    /\ j \in 0 .. MaxJitter
    /\ j > 0 => IsSome(current_sample) /\ resets + foreign + jittered < MaxExtras
    /\ jittered' = IF j > 0 THEN jittered + 1 ELSE jittered
    /\ epos' = epos + n
    /\ calls' = DecodeCalled
    /\ sample_buf' = IF IsNone(sample_buf) THEN Some(channels) ELSE sample_buf
    /\ num_channels' = IF IsNone(sample_buf) THEN channels ELSE num_channels
    /\ LET packet_samples == Interleaved(epos, n, channels)
           position == PacketPosition(current_sample, PacketTs(epos + j), time_base)
           invalid == IF IsNone(sample_buf)
                      THEN ChannelError(start_channel, end_channel, channels)
                      ELSE None
       IN  IF IsSome(invalid)
           THEN /\ result' = Unwrap(invalid)
                /\ pc' = "done"
                /\ current_sample' = position
                /\ samples' = samples
           ELSE \E o \in Collect(packet_samples, num_channels', start_channel,
                                 end_channel, start_frame, end_frame,
                                 Unwrap(position), samples) :
                    /\ samples' = o.samples
                    /\ CASE o.status = "continue" ->
                              /\ current_sample' = Some(o.pos)
                              /\ pc' = pc
                              /\ result' = result
                         [] o.status = "return" ->
                              /\ current_sample' = position
                              /\ pc' = "done"
                              /\ result' = AudioData(SampleRate, o.nc,
                                                     Len(o.samples) \div o.nc, o.samples)
                         [] o.status = "panic" ->
                              /\ current_sample' = position
                              /\ pc' = "done"
                              /\ result' = Panic(o.reason)
    /\ UNCHANGED << env, wvars, seek_pos, resets, foreign, config, start_frame, end_frame,
                    start_channel, end_channel >>

\* ------------------------------ lines 195-197 and 324-335: the end of stream
FinalResults(sc, ec, nch, smp) ==
    LET ch_start == UnwrapOr(sc, 0)
        ch_end == UnwrapOr(ec, nch)
        With(d) ==
            IF IsNone(d) THEN Panic("subtract with overflow")
            ELSE IF Unwrap(d) = 0 THEN Panic("divide by zero")
            ELSE AudioData(SampleRate, Unwrap(d), Len(smp) \div Unwrap(d), smp)
    IN  {With(d) : d \in SubUsize(ch_end, ch_start)}

\* Err(Error::IoError(e)) if e.kind() == UnexpectedEof => break
NextPacketEof ==
    /\ pc = "loop"
    /\ epos = total_frames
    /\ calls' = NextPacketCalled
    /\ result' \in FinalResults(start_channel, end_channel, num_channels, samples)
    /\ pc' = "done"
    /\ UNCHANGED << env, wvars, epos, seek_pos, resets, foreign, jittered, config,
                    start_frame, end_frame, start_channel, end_channel, num_channels,
                    sample_buf, current_sample, samples >>

Next ==
    \/ OpenError
    \/ pc = "call" /\ \E cfg \in AudioReadConfig : Resolve(cfg)
    \/ SeekSkipped
    \/ SeekFailed
    \/ \E p \in 0 .. MaxFrames - 1 : SeekDone(p)
    \/ MakeDecoder
    \/ MakeDecoderError
    \/ NextPacketReset
    \/ NextPacketError
    \/ NextPacketForeign
    \/ DecodeError
    \/ \E n \in 1 .. MaxPacket, j \in 0 .. MaxJitter : ProcessPacket(n, j)
    \/ NextPacketEof

Spec == Init /\ [][Next]_vars

\* audio_read is sequential code on one thread: while a step of it is possible,
\* a step is taken. Which outcome the decode engine delivers stays free.
FairSpec == Init /\ [][Next]_vars /\ WF_vars(Next)

\* --------------------------------------------- lines 188-335 as a function
\* The results of audio_read's loop on the stream delivered from frame `from` in
\* packets of one frame each, with channel options sc and ec: the reference the
\* equivalence claims compare a run with.
RECURSIVE RunLoop(_, _, _, _, _)
RunLoop(sc, ec, f, cs, acc) ==
    IF f >= total_frames
    THEN FinalResults(sc, ec, IF IsNone(cs) THEN 0 ELSE channels, acc)
    ELSE LET invalid == IF IsNone(cs) THEN ChannelError(sc, ec, channels) ELSE None
             position == PacketPosition(cs, PacketTs(f), time_base)
             After(o) ==
                 CASE o.status = "continue" -> RunLoop(sc, ec, f + 1, Some(o.pos), o.samples)
                   [] o.status = "return" ->
                         {AudioData(SampleRate, o.nc, Len(o.samples) \div o.nc, o.samples)}
                   [] o.status = "panic" -> {Panic(o.reason)}
         IN  IF IsSome(invalid)
             THEN {Unwrap(invalid)}
             ELSE UNION {After(o) : o \in Collect(Interleaved(f, 1, channels), channels,
                                                  sc, ec, start_frame, end_frame,
                                                  Unwrap(position), acc)}

\* ================================================== src/src/writer.rs
\* ------------------------------------------------------ the samples, F: Float
\* A float is a multiple n / FloatScale of a fraction of one, an infinity or NaN.
Finite(n) == [kind |-> "finite", n |-> n]
PosInf == [kind |-> "+inf"]
NegInf == [kind |-> "-inf"]
NaN == [kind |-> "NaN"]
IsFinite(x) == x.kind = "finite"

Floats == {Finite(n) : n \in -FloatRange .. FloatRange} \cup {PosInf, NegInf, NaN}

\* F::zero(), F::one(), neg()
Zero == Finite(0)
One == Finite(FloatScale)
Neg(x) ==
    CASE x.kind = "finite" -> Finite(-x.n)
      [] x.kind = "+inf" -> NegInf
      [] x.kind = "-inf" -> PosInf
      [] x.kind = "NaN" -> NaN

\* x < y of PartialOrd: false when either side is NaN.
FloatLt(x, y) ==
    CASE x.kind = "NaN" \/ y.kind = "NaN" -> FALSE
      [] x.kind = "-inf" -> y.kind /= "-inf"
      [] x.kind = "+inf" -> FALSE
      [] y.kind = "-inf" -> FALSE
      [] y.kind = "+inf" -> TRUE
      [] OTHER -> x.n < y.n

\* x * y of IEEE 754 (the finite products of the model are exact).
FloatMul(x, y) ==
    CASE x.kind = "NaN" \/ y.kind = "NaN" -> NaN
      [] IsFinite(x) /\ IsFinite(y) -> Finite((x.n * y.n) \div FloatScale)
      [] (IsFinite(x) /\ x.n = 0) \/ (IsFinite(y) /\ y.n = 0) -> NaN
      [] OTHER -> IF FloatLt(x, Zero) = FloatLt(y, Zero) THEN PosInf ELSE NegInf

\* i16::MAX
I16Max == 2 ^ 15 - 1

\* F::from(i16::MAX): NumCast from an i16 always succeeds.
FromI16(i) == Some(Finite(i * FloatScale))

\* ToPrimitive::to_i16 of a float: None for NaN and outside (i16::MIN - 1,
\* i16::MAX + 1), else the value truncated towards zero.
ToI16(x) ==
    IF IsFinite(x) /\ x.n > (-I16Max - 2) * FloatScale /\ x.n < (I16Max + 1) * FloatScale
    THEN Some(IF x.n >= 0 THEN x.n \div FloatScale ELSE -((-x.n) \div FloatScale))
    ELSE None

\* ToPrimitive::to_f32 of a float: Some(*self as f32) for every value, NaN and the
\* infinities included (the finite values of the model are exact in f32).
ToF32(x) == Some(x)

\* A mutant of Clamp: the sample is not clamped.
ClampNone(x, min, max) == x

\* Float::clamp: if input < min { min } else if input > max { max } else { input }
Clamp(x, min, max) ==
    IF FloatLt(x, min) THEN min ELSE IF FloatLt(max, x) THEN max ELSE x

\* lines 57-60: the value written for a sample with WriteSampleFormat::Int16
SampleI16(sample) ==
    UnwrapOr(ToI16(FloatMul(Clamp(sample, Neg(One), One),
                            UnwrapOr(FromI16(I16Max), Zero))), 0)

\* line 69: the value written for a sample with WriteSampleFormat::Float32
SampleF32(sample) == UnwrapOr(ToF32(sample), Zero)

\* ------------------------------------------------ lines 31-48: the call
WriteSampleFormat == {"Int16", "Float32"}

\* An audio block by its sizes: its samples are drawn as frame_iters yields them.
AudioBlocks == [num_channels : 1 .. MaxChannels, num_frames : 0 .. MaxFrames]

\* A mutant of WavSpec: the file is declared mono whatever the block.
WavSpecMono(audio_block, sample_rate, sample_format) ==
    [channels |-> 1,
     sample_rate |-> sample_rate,
     bits_per_sample |-> IF sample_format = "Int16" THEN 16 ELSE 32,
     sample_format |-> IF sample_format = "Int16" THEN "Int" ELSE "Float"]

WavSpec(audio_block, sample_rate, sample_format) ==
    [channels |-> audio_block.num_channels,
     sample_rate |-> sample_rate,
     bits_per_sample |-> IF sample_format = "Int16" THEN 16 ELSE 32,
     sample_format |-> IF sample_format = "Int16" THEN "Int" ELSE "Float"]

WriteOk == [kind |-> "Ok"]

AudioWrite(audio_block, sample_rate, sample_format) ==
    /\ wpc = "idle"
    /\ wargs' = [audio_block |-> audio_block, sample_rate |-> sample_rate,
                 sample_format |-> sample_format]
    /\ wpc' = "create"
    /\ UNCHANGED << writer, written, last_write, wresult >>

\* audio_write is called on a block of any sizes.
WriteCalled ==
    /\ pc = "call"
    /\ harness = "read"
    /\ \E b \in AudioBlocks, f \in WriteSampleFormat : AudioWrite(b, SampleRate, f)
    /\ UNCHANGED << env, epos, seek_pos, resets, foreign, jittered, pc, config, start_frame,
                    end_frame, start_channel, end_channel, num_channels, sample_buf,
                    current_sample, samples, result, calls, harness, data1 >>

\* ---------------------------------------- line 50: WavWriter::create(..)?
Create ==
    /\ wpc = "create"
    /\ writer' = Some([spec |-> WavSpec(wargs.audio_block, wargs.sample_rate,
                                        wargs.sample_format),
                       samples |-> 0,
                       finalized |-> << >>])
    /\ wpc' = "samples"
    /\ UNCHANGED << env, epos, seek_pos, resets, foreign, jittered, pc, config, start_frame,
                    end_frame, start_channel, end_channel, num_channels, sample_buf,
                    current_sample, samples, result, calls,
                    harness, data1, wargs, written, last_write, wresult >>

CreateError ==
    /\ wpc = "create"
    /\ wresult' = Err("DecodingError", << >>)
    /\ wpc' = "done"
    /\ UNCHANGED << env, epos, seek_pos, resets, foreign, jittered, pc, config, start_frame,
                    end_frame, start_channel, end_channel, num_channels, sample_buf,
                    current_sample, samples, result, calls,
                    harness, data1, wargs, writer, written, last_write >>

\* --------------------------------------------- lines 52-73: the samples
\* The value passed to write_sample for a sample.
SampleValue(sample_format, sample) ==
    IF sample_format = "Int16" THEN SampleI16(sample) ELSE SampleF32(sample)

\* A mutant of NextSample: the loops run channel by channel.
NextSampleChannelMajor(audio_block, i) ==
    << i % audio_block.num_frames, i \div audio_block.num_frames >>

\* for frame in audio_block.frame_iters() { for sample in frame { .. } }: the
\* << frame, channel >> of the sample that the loops reach after i samples.
NextSample(audio_block, i) ==
    << i \div audio_block.num_channels, i % audio_block.num_channels >>

SamplesLeft ==
    Len(written) < wargs.audio_block.num_frames * wargs.audio_block.num_channels

\* writer.write_sample(..)? succeeds.
WriteSample(sample) ==
    /\ wpc = "samples"
    /\ SamplesLeft
    /\ last_write' = Some([sample |-> sample,
                           value |-> SampleValue(wargs.sample_format, sample)])
    /\ written' = Append(written, NextSample(wargs.audio_block, Len(written)))
    /\ writer' = Some([Unwrap(writer) EXCEPT !.samples = @ + 1])
    /\ UNCHANGED << env, epos, seek_pos, resets, foreign, jittered, pc, config, start_frame,
                    end_frame, start_channel, end_channel, num_channels, sample_buf,
                    current_sample, samples, result, calls,
                    harness, data1, wpc, wargs, wresult >>

\* A mutant of WriteSampleError: the writer is not dropped when `?` returns.
WriteSampleErrorLeaked(sample) ==
    /\ wpc = "samples"
    /\ SamplesLeft
    /\ last_write' = Some([sample |-> sample,
                           value |-> SampleValue(wargs.sample_format, sample)])
    /\ wresult' = Err("DecodingError", << >>)
    /\ wpc' = "done"
    /\ UNCHANGED << env, epos, seek_pos, resets, foreign, jittered, pc, config, start_frame,
                    end_frame, start_channel, end_channel, num_channels, sample_buf,
                    current_sample, samples, result, calls,
                    harness, data1, wargs, writer, written >>

\* writer.write_sample(..)? fails: `?` returns the error and `writer` goes out of
\* scope; WavWriter's Drop finalizes a writer that was not finalized, ignoring
\* the outcome.
WriteSampleError(sample) ==
    /\ wpc = "samples"
    /\ SamplesLeft
    /\ last_write' = Some([sample |-> sample,
                           value |-> SampleValue(wargs.sample_format, sample)])
    /\ writer' = Some([Unwrap(writer) EXCEPT !.finalized = Append(@, "drop")])
    /\ wresult' = Err("DecodingError", << >>)
    /\ wpc' = "done"
    /\ UNCHANGED << env, epos, seek_pos, resets, foreign, jittered, pc, config, start_frame,
                    end_frame, start_channel, end_channel, num_channels, sample_buf,
                    current_sample, samples, result, calls,
                    harness, data1, wargs, written >>

\* ------------------------------------------ lines 75-77: writer.finalize()?
Finalize ==
    /\ wpc = "samples"
    /\ ~SamplesLeft
    /\ writer' = Some([Unwrap(writer) EXCEPT !.finalized = Append(@, "finalize")])
    /\ wresult' = WriteOk
    /\ wpc' = "done"
    /\ UNCHANGED << env, epos, seek_pos, resets, foreign, jittered, pc, config, start_frame,
                    end_frame, start_channel, end_channel, num_channels, sample_buf,
                    current_sample, samples, result, calls,
                    harness, data1, wargs, written, last_write >>

\* finalize() took the writer, and fails.
FinalizeError ==
    /\ wpc = "samples"
    /\ ~SamplesLeft
    /\ writer' = Some([Unwrap(writer) EXCEPT !.finalized = Append(@, "finalize")])
    /\ wresult' = Err("DecodingError", << >>)
    /\ wpc' = "done"
    /\ UNCHANGED << env, epos, seek_pos, resets, foreign, jittered, pc, config, start_frame,
                    end_frame, start_channel, end_channel, num_channels, sample_buf,
                    current_sample, samples, result, calls,
                    harness, data1, wargs, written, last_write >>

\* ------------------------------------- lines 83-139: the round trip tests
\* AudioReadConfig::default()
DefaultConfig ==
    [start |-> Beginning, stop |-> End, first_channel |-> None, last_channel |-> None]

\* audio_write(path, data1.audio_block(), data1.sample_rate, config)
RoundTripWrite ==
    /\ pc = "done"
    /\ harness = "read"
    /\ result.kind = "Ok"
    /\ data1' = Some(result)
    /\ \E f \in WriteSampleFormat :
          AudioWrite([num_channels |-> result.num_channels,
                      num_frames |-> result.num_frames], result.sample_rate, f)
    /\ UNCHANGED << env, epos, seek_pos, resets, foreign, jittered, pc, config, start_frame,
                    end_frame, start_channel, end_channel, num_channels, sample_buf,
                    current_sample, samples, result, calls, harness >>

\* audio_read(path, AudioReadConfig::default()) on the file audio_write has written:
\* the stream has the channel count of the file's spec and the frames that the
\* samples written fill (and the sample rate of the spec, which the test passed on
\* from data1).
ReadBack ==
    /\ harness = "read"
    /\ IsSome(data1)
    /\ wpc = "done"
    /\ wresult = WriteOk
    /\ harness' = "read back"
    /\ channels' = Unwrap(writer).spec.channels
    /\ total_frames' = Unwrap(writer).samples \div Unwrap(writer).spec.channels
    /\ time_base' \in {None, Some(SampleRate * TicksPerFrame)}
    /\ epos' = 0
    /\ seek_pos' = None
    /\ resets' = 0
    /\ foreign' = 0
    /\ jittered' = 0
    /\ pc' = "call"
    /\ config' = NoConfig
    /\ start_frame' = 0
    /\ end_frame' = None
    /\ start_channel' = None
    /\ end_channel' = None
    /\ num_channels' = 0
    /\ sample_buf' = None
    /\ current_sample' = None
    /\ samples' = << >>
    /\ result' = NoResult
    /\ calls' = [seek |-> 0, seek_ts |-> None, next_packet |-> 0, decode |-> 0]
    /\ UNCHANGED << data1, wpc, wargs, writer, written, last_write, wresult >>

\* One of the two audio_read calls of a round trip is running.
Reading == (harness = "read" /\ wpc = "idle") \/ harness = "read back"

\* audio_write on any block, and the round trip: audio_read with the default
\* config (under which no seek is planned), audio_write, audio_read again.
WriteNext ==
    \/ WriteCalled
    \/ Create
    \/ CreateError
    \/ \E x \in Floats : WriteSample(x)
    \/ \E x \in Floats : WriteSampleError(x)
    \/ Finalize
    \/ FinalizeError
    \/ Reading /\ OpenError
    \/ Reading /\ Resolve(DefaultConfig)
    \/ Reading /\ SeekSkipped
    \/ Reading /\ MakeDecoder
    \/ Reading /\ MakeDecoderError
    \/ Reading /\ NextPacketReset
    \/ Reading /\ NextPacketError
    \/ Reading /\ NextPacketForeign
    \/ Reading /\ DecodeError
    \/ Reading /\ \E n \in 1 .. MaxPacket, j \in 0 .. MaxJitter : ProcessPacket(n, j)
    \/ Reading /\ NextPacketEof
    \/ RoundTripWrite
    \/ ReadBack

WriteSpec == Init /\ [][WriteNext]_vars

\* ------------------------------------------------------------- the claims
EngineErrors == {"FileError", "EncodingError", "NoTrack", "NoSampleRate"}

\* audio_read has ended, and not with an error of the file or of the engine.
Ended == pc = "done" /\ ~(result.kind = "Err" /\ result.error \in EngineErrors)

\* The resolved frame range is not empty-reversed: audio_read entered its loop.
ValidFrameRange == IsNone(end_frame) \/ start_frame <= Unwrap(end_frame)

HasError(e) == result.kind = "Err" /\ result.error = e

\* The resolved channel range [ChStart, ChEnd) of the request.
ChStart == UnwrapOr(start_channel, 0)
ChEnd == UnwrapOr(end_channel, channels)

\* Channels [a, b) of the frames [from, to) of the stream, interleaved.
StreamRange(a, b, from, to) ==
    [i \in 1 .. (to - from) * (b - a) |->
        StreamSample(from + ((i - 1) \div (b - a)), a + ((i - 1) % (b - a)))]

Min(x, y) == IF x <= y THEN x ELSE y

\* The end of the requested range within the stream.
LastFrame == IF IsSome(end_frame) THEN Min(Unwrap(end_frame), total_frames)
             ELSE total_frames

\* C1: with no channel range and start_frame <= end_frame <= T, audio_read returns
\* exactly end_frame - start_frame frames, and they are the frames
\* [start_frame, end_frame) of the whole stream (what the default config reads).
C1_FrameRangeExact ==
    (/\ Ended
     /\ IsNone(start_channel) /\ IsNone(end_channel)
     /\ IsSome(end_frame)
     /\ start_frame <= Unwrap(end_frame)
     /\ Unwrap(end_frame) <= total_frames)
    => /\ result.kind = "Ok"
       /\ result.num_frames = Unwrap(end_frame) - start_frame
       /\ result.interleaved_samples =
              SubSeq(StreamRange(0, channels, 0, total_frames),
                     start_frame * channels + 1, Unwrap(end_frame) * channels)

\* C2: for a valid channel range [a, b) of a stream with C channels audio_read
\* returns num_channels = b - a, and the sample at offset k of returned frame i
\* is the stream's sample of channel a + k of frame start_frame + i.
C2_ChannelRangeSamples ==
    (/\ Ended
     /\ IsSome(sample_buf)
     /\ 0 <= ChStart /\ ChStart < ChEnd /\ ChEnd <= channels)
    => /\ result.kind = "Ok"
       /\ result.num_channels = ChEnd - ChStart
       /\ \A i \in 0 .. result.num_frames - 1 : \A k \in 0 .. ChEnd - ChStart - 1 :
              /\ i * (ChEnd - ChStart) + k + 1 <= Len(result.interleaved_samples)
              /\ result.interleaved_samples[i * (ChEnd - ChStart) + k + 1]
                    = StreamSample(start_frame + i, ChStart + k)

\* C3: for a valid channel range the number of frames returned is
\* min(end_frame, T) - start_frame when start_frame is within the stream and 0
\* when it is at or past its end, and the call succeeds in both cases.
C3_FrameCount ==
    (/\ Ended
     /\ ValidFrameRange
     /\ 0 <= ChStart /\ ChStart < ChEnd /\ ChEnd <= channels)
    => /\ result.kind = "Ok"
       /\ result.num_frames = IF start_frame < total_frames
                               THEN LastFrame - start_frame
                               ELSE 0

\* C4: the request with the explicit full channel range, Some(0) and Some(C),
\* returns what the same request with None and None returns.
C4_FullRangeSameAsNone ==
    (/\ Ended
     /\ ValidFrameRange
     /\ start_channel = Some(0) /\ end_channel = Some(channels))
    => result \in RunLoop(None, None, 0, None, << >>)

\* C5: whenever the resolved start_frame is greater than the resolved end_frame,
\* audio_read has failed with EndFrameLargerThanStartFrame and has issued no seek,
\* next_packet or decode call.
C5_EndBeforeStartFails ==
    (IsSome(end_frame) /\ start_frame > Unwrap(end_frame))
    => /\ pc = "done"
       /\ result = Err("EndFrameLargerThanStartFrame", << Unwrap(end_frame), start_frame >>)
       /\ calls.seek = 0 /\ calls.next_packet = 0 /\ calls.decode = 0

\* C5 happens for bounds given as times.
C5_Witness ==
    /\ pc = "done"
    /\ HasError("EndFrameLargerThanStartFrame")
    /\ config.start.kind = "Time" /\ config.stop.kind = "Time"
    /\ start_frame > Unwrap(end_frame)

\* C6: once the first packet of a stream with C channels is decoded, audio_read
\* has failed with InvalidStartChannel when first_channel >= C, else with
\* InvalidEndChannel when last_channel > C, else with
\* EndChannelLargerThanStartChannel when last_channel <= first_channel, a
\* first_channel of None counting as 0.
C6_ChannelErrors ==
    IsSome(sample_buf)
    => LET badStart == IsSome(start_channel) /\ Unwrap(start_channel) >= channels
           badEnd == IsSome(end_channel) /\ Unwrap(end_channel) > channels
           notAfter == IsSome(end_channel) /\ Unwrap(end_channel) <= ChStart
       IN  /\ badStart => HasError("InvalidStartChannel")
           /\ (~badStart /\ badEnd) => HasError("InvalidEndChannel")
           /\ (~badStart /\ ~badEnd /\ notAfter)
                 => HasError("EndChannelLargerThanStartChannel")

\* C7: audio_read ends with an AudioData whose fields are consistent or with an
\* AudioReadError, and in no other way.
C7_ResultOrError ==
    pc = "done"
    => \/ result.kind = "Err"
       \/ /\ result.kind = "Ok"
          /\ Len(result.interleaved_samples) = result.num_frames * result.num_channels

\* audio_read left its loop at the clean end of stream: every next_packet call but
\* the last gave a reset, a packet of another track or a decoded packet.
EndedAtEof ==
    Ended /\ ValidFrameRange
          /\ calls.next_packet = calls.decode + resets + foreign + 1

\* C8: at a clean end of stream audio_read returns success with exactly the
\* frames accumulated so far, zero frames when no packet was decoded.
C8_EofReturnsAccumulated ==
    EndedAtEof
    => /\ result.kind = "Ok"
       /\ result.interleaved_samples = samples
       /\ result.num_frames * result.num_channels = Len(samples)
       /\ calls.decode = 0 => result.num_frames = 0

\* Every packet decoded so far held one frame.
OneFramePackets == calls.decode = epos - UnwrapOr(seek_pos, 0)

\* C9: the result is what the run without a seek returns (compared on streams of
\* one-frame packets), whether the seek succeeded, failed or was not issued.
C9_SeekNoInfluence ==
    (Ended /\ ValidFrameRange /\ OneFramePackets)
    => result \in RunLoop(start_channel, end_channel, 0, None, << >>)

\* C10: a ResetRequired result of next_packet leaves audio_read in its loop with
\* no result and no change to what it has collected.
C10_ResetNotSurfaced ==
    [][resets' > resets
         => /\ pc' = "loop"
            /\ result' = NoResult
            /\ UNCHANGED << samples, current_sample, num_channels, sample_buf,
                            start_frame, end_frame, start_channel, end_channel >>]_vars

\* C10 happens: a run with a reset among several packets returns frames.
C10_Witness ==
    /\ pc = "done"
    /\ resets > 0
    /\ calls.decode >= 2
    /\ result.kind = "Ok"
    /\ result.num_frames > 0

\* floor(d.seconds * sample_rate), stated without a division: the frame k with
\* k <= d.seconds * sample_rate < k + 1.
FloorOfSeconds(d) ==
    CHOOSE k \in 0 .. (MaxSecs + 1) * SampleRate :
        /\ 2 * k <= (2 * d.secs + d.halves) * SampleRate
        /\ (2 * d.secs + d.halves) * SampleRate < 2 * k + 2

\* The request with every time bound replaced by the frame it names.
TimesAsFrames(cfg) ==
    [cfg EXCEPT !.start = IF @.kind = "Time" THEN FrameOf(FloorOfSeconds(@.duration)) ELSE @,
                !.stop = IF @.kind = "Time" THEN FrameOf(FloorOfSeconds(@.duration)) ELSE @]

\* C11: a time bound d resolves to the frame floor(d.seconds * sample_rate): when
\* audio_read takes a config, the frame range it works with from then on, and the
\* range error it returns, are those of the same config with every time bound
\* replaced by Frame(floor(d.seconds * sample_rate)).
C11_TimeResolvesToFloor ==
    [][(pc = "call" /\ config' /= NoConfig)
         => LET twin == TimesAsFrames(config')
                sf == IF twin.start.kind = "Frame" THEN twin.start.frame ELSE 0
                ef == IF twin.stop.kind = "Frame" THEN Some(twin.stop.frame) ELSE None
            IN  /\ start_frame' = sf
                /\ end_frame' = ef
                /\ IF IsSome(ef) /\ sf > Unwrap(ef)
                   THEN /\ pc' = "done"
                        /\ result' = Err("EndFrameLargerThanStartFrame",
                                         << Unwrap(ef), sf >>)
                   ELSE pc' = "seek" /\ result' = NoResult]_vars

\* C11 happens: a request whose two bounds are times with a half second went on
\* to read a range that is not empty.
C11_Witness ==
    /\ pc = "make"
    /\ config.start.kind = "Time" /\ config.start.duration.halves = 1
    /\ config.stop.kind = "Time" /\ config.stop.duration.halves = 1
    /\ start_frame < Unwrap(end_frame)

\* v is num / den truncated towards zero (den > 0).
IsTruncated(v, num, den) ==
    IF num >= 0 THEN v >= 0 /\ v * den <= num /\ num < (v + 1) * den
    ELSE v <= 0 /\ v * den >= num /\ num > (v - 1) * den

\* clamp(x, -1, 1) * 32767 of a finite x, as a numerator over FloatScale.
ClampedTimesMax(x) ==
    I16Max * (IF x.n > FloatScale THEN FloatScale
              ELSE IF x.n < -FloatScale THEN -FloatScale ELSE x.n)

\* What holds of the value v written for every sample x with Int16, NaN apart.
Int16Value(x, v) ==
    /\ v \in -I16Max .. I16Max
    /\ IsFinite(x) => IsTruncated(v, ClampedTimesMax(x), FloatScale)
    /\ (x = PosInf \/ (IsFinite(x) /\ x.n > FloatScale)) => v = I16Max
    /\ (x = NegInf \/ (IsFinite(x) /\ x.n < -FloatScale)) => v = -I16Max

\* C12 as stated: with Int16 the value written for a sample x is
\* trunc(clamp(x, -1, 1) * 32767), within [-32767, 32767], 32767 above 1 and for
\* +infinity, -32767 below -1 and for -infinity, and every non-finite sample is
\* written as one of the two bounds.
C12_Int16NonFiniteToBound ==
    (IsSome(last_write) /\ wargs.sample_format = "Int16")
    => /\ Int16Value(Unwrap(last_write).sample, Unwrap(last_write).value)
       /\ ~IsFinite(Unwrap(last_write).sample)
             => Unwrap(last_write).value \in {-I16Max, I16Max}

\* C12, amended: with Int16 the value written for a sample x is
\* trunc(clamp(x, -1, 1) * 32767), within [-32767, 32767], 32767 above 1 and for
\* +infinity, -32767 below -1 and for -infinity, and 0 for NaN; audio_write does
\* not panic.
C12_Int16Quantized ==
    /\ wresult.kind /= "Panic"
    /\ (IsSome(last_write) /\ wargs.sample_format = "Int16")
       => /\ Int16Value(Unwrap(last_write).sample, Unwrap(last_write).value)
          /\ Unwrap(last_write).sample = NaN => Unwrap(last_write).value = 0

\* C12 happens: a file was written with Int16 whose last sample was NaN, after
\* other samples.
C12_Witness ==
    /\ wpc = "done"
    /\ wresult = WriteOk
    /\ wargs.sample_format = "Int16"
    /\ Len(written) > 1
    /\ Unwrap(last_write).sample = NaN

\* C13: with Float32 every sample other than NaN is written unchanged, 0.0 is
\* written for NaN, and NaN is never passed to write_sample.
C13_Float32NaNToZero ==
    (IsSome(last_write) /\ wargs.sample_format = "Float32")
    => /\ Unwrap(last_write).sample /= NaN
             => Unwrap(last_write).value = Unwrap(last_write).sample
       /\ Unwrap(last_write).sample = NaN => Unwrap(last_write).value = Zero
       /\ Unwrap(last_write).value /= NaN

C14_WitnessNoFrames ==
    /\ wpc = "done"
    /\ wresult = WriteOk
    /\ wargs.audio_block.num_frames = 0
    /\ Unwrap(writer).samples = 0
    /\ Unwrap(writer).finalized = << "finalize" >>

\* C15: when the audio_read that reads back what audio_write wrote, in either
\* sample format, from the result of an audio_read with the default config, ends
\* (and not with an error of the file or of the engine), it returns the sample
\* rate, the channel count and the frame count of that first result.
C15_RoundTrip ==
    (harness = "read back" /\ Ended)
    => /\ result.kind = "Ok"
       /\ Unwrap(writer).spec.sample_rate = Unwrap(data1).sample_rate
       /\ result.sample_rate = Unwrap(data1).sample_rate
       /\ result.num_channels = Unwrap(data1).num_channels
       /\ result.num_frames = Unwrap(data1).num_frames

\* C15 happens: several frames of several channels made the round trip.
C15_Witness ==
    /\ harness = "read back"
    /\ pc = "done"
    /\ result.kind = "Ok"
    /\ result.num_channels > 1
    /\ result.num_frames > 1
    /\ wargs.sample_format = "Float32"

\* The frame at position end_frame - 1 has been processed and audio_read has not
\* returned: its position stands at end_frame, at the end of a packet.
LastFrameProcessed ==
    /\ pc = "loop"
    /\ IsSome(end_frame)
    /\ IsSome(current_sample)
    /\ Unwrap(current_sample) >= Unwrap(end_frame)

\* C16: once the frame at position end_frame - 1 has been processed, audio_read
\* issues no further next_packet or decode call, whatever the packet sizes.
C16_NoCallAfterLastFrame ==
    [][LastFrameProcessed
         => /\ calls'.next_packet = calls.next_packet
            /\ calls'.decode = calls.decode]_vars

\* ts * sample_rate / denom for the timestamp of the packet that starts at the
\* engine's position, 0 for a track without a time base.
TimestampPosition ==
    IF IsSome(time_base) THEN (PacketTs(epos) * SampleRate) \div Unwrap(time_base) ELSE 0

\* C17: a ResetRequired result makes the running position unknown, and a packet
\* decoded while the position is unknown sets it from the packet's timestamp
\* (the position of the packet's first frame, from which its frames are counted).
C17_ResetResynchronizes ==
    [][/\ resets' > resets => current_sample' = None
       /\ (calls'.decode > calls.decode /\ epos' > epos /\ IsNone(current_sample))
             => /\ IsSome(current_sample')
                /\ IF pc' = "done" THEN Unwrap(current_sample') = TimestampPosition
                   ELSE Unwrap(current_sample') > TimestampPosition]_vars

\* C18: when a packet of n frames has been processed and audio_read goes on, the
\* position is the position of the packet's first frame plus n, that position
\* being the running position when it was known and else the one given by the
\* packet's timestamp (0 without a time base), for every channel selection.
C18_PositionAdvancesByFrames ==
    [][(calls'.decode > calls.decode /\ epos' > epos /\ pc' = "loop")
         => current_sample' =
               Some((IF IsSome(current_sample) THEN Unwrap(current_sample)
                     ELSE TimestampPosition) + (epos' - epos))]_vars

\* What audio_read makes of the packet decoded in this step when it takes the
\* counted position p for the packet's first frame.
StepFromPosition(p) ==
    \E o \in Collect(Interleaved(epos, epos' - epos, channels), num_channels,
                     start_channel, end_channel, start_frame, end_frame, p, samples) :
        /\ samples' = o.samples
        /\ CASE o.status = "continue" ->
                  pc' = "loop" /\ result' = NoResult /\ current_sample' = Some(o.pos)
             [] o.status = "return" ->
                  /\ pc' = "done"
                  /\ result' = AudioData(SampleRate, o.nc, Len(o.samples) \div o.nc,
                                         o.samples)
             [] o.status = "panic" -> pc' = "done" /\ result' = Panic(o.reason)

\* C19: whatever timestamp a packet after the first decoded one carries, the
\* position and the output after it are those of the count; and a run without a
\* reset returns what the run on the same samples with the same first timestamp
\* and no jitter returns (compared on streams of one-frame packets).
C19_LaterTimestampsIgnored ==
    /\ [][(calls'.decode > calls.decode /\ epos' > epos /\ IsSome(current_sample))
            => StepFromPosition(Unwrap(current_sample))]_vars
    /\ []((Ended /\ ValidFrameRange /\ OneFramePackets /\ resets = 0)
            => result \in RunLoop(start_channel, end_channel, UnwrapOr(seek_pos, 0),
                                  None, << >>))

\* C19 happens: a run in which a later packet carried a late timestamp returned
\* the frames up to an end_frame that a position taken from that timestamp would
\* have passed.
C19_Witness ==
    /\ pc = "done"
    /\ jittered > 0
    /\ resets = 0
    /\ IsSome(time_base)
    /\ IsSome(end_frame)
    /\ result.kind = "Ok"
    /\ result.num_frames >= 2
    /\ result.num_frames = Unwrap(end_frame) - start_frame

\* The channel validation of the first decoded packet returned an error.
ChannelValidationFailed ==
    \/ HasError("InvalidStartChannel")
    \/ HasError("InvalidEndChannel")
    \/ HasError("EndChannelLargerThanStartChannel")

\* C20: once the first packet is decoded and the channel validation has returned
\* no error, the resolved channel range satisfies 0 <= ch_start < ch_end <= C,
\* with ch_start = first_channel or 0 and ch_end = last_channel or C, for every
\* combination of Some and None of the two bounds.
C20_ResolvedChannelRange ==
    (IsSome(sample_buf) /\ ~ChannelValidationFailed)
    => 0 <= ChStart /\ ChStart < ChEnd /\ ChEnd <= channels

\* C21: a channel-range error is returned only by the step that decodes the
\* first packet of the track, which finds no SampleBuffer and an empty output and
\* appends nothing; once it is returned the one decode made is that of this
\* packet.
C21_ValidationAtFirstPacket ==
    /\ [][(ChannelValidationFailed' /\ ~ChannelValidationFailed)
            => /\ IsNone(sample_buf) /\ IsSome(sample_buf')
               /\ calls.decode = 0 /\ calls'.decode = 1
               /\ samples = << >> /\ samples' = << >>]_vars
    /\ [](ChannelValidationFailed
            => pc = "done" /\ samples = << >> /\ calls.decode = 1)

\* C21 happens: the first packet of the track, decoded after a packet of another
\* track or a reset, failed the validation.
C21_Witness ==
    /\ ChannelValidationFailed
    /\ calls.next_packet > calls.decode
    /\ epos > 0

\* t is the seek timestamp of C22 for start_frame: there is a seek_frame k with
\* k = floor(start_frame * 0.9), k <= start_frame, and
\* t = floor(k * denom / sample_rate).
IsSeekTarget(t) ==
    \E k \in 0 .. start_frame :
        /\ 10 * k <= 9 * start_frame /\ 9 * start_frame < 10 * (k + 1)
        /\ t * SampleRate <= k * Unwrap(time_base)
        /\ k * Unwrap(time_base) < (t + 1) * SampleRate

\* C22: audio_read issues at most one seek, before any next_packet call, and it
\* does so exactly when start_frame > sample_rate and the track has a time base;
\* the timestamp sought is floor(start_frame * 0.9) * denom / sample_rate.
C22_SeekPlanning ==
    /\ [][calls'.seek > calls.seek
            => calls.seek = 0 /\ calls'.seek = 1 /\ calls.next_packet = 0]_vars
    /\ [](/\ calls.seek <= 1
          /\ calls.seek = 1
                => /\ start_frame > SampleRate
                   /\ IsSome(time_base)
                   /\ IsSome(calls.seek_ts)
                   /\ IsSeekTarget(Unwrap(calls.seek_ts))
          /\ calls.seek = 0 => IsNone(calls.seek_ts)
          /\ (pc = "loop" /\ start_frame > SampleRate /\ IsSome(time_base))
                => calls.seek = 1)

\* C22 happens: a read that sought, to a timestamp past the beginning, returned
\* frames.
C22_Witness ==
    /\ pc = "done"
    /\ calls.seek = 1
    /\ Unwrap(calls.seek_ts) > 0
    /\ IsSome(seek_pos)
    /\ result.kind = "Ok"
    /\ result.num_frames > 0

\* ch_end - ch_start with ch_start = first_channel or 0 and ch_end = last_channel
\* or the channel count audio_read holds (lines 252-254 and 324-325).
SelectedChannels ==
    UnwrapOr(end_channel, num_channels) - UnwrapOr(start_channel, 0)

\* C23: the output buffer is only appended to (what it held stays as a prefix),
\* after every packet processed its length is a multiple of ch_end - ch_start,
\* and every successful return has num_channels = ch_end - ch_start and
\* Len(interleaved_samples) = num_frames * num_channels, the buffer returned.
C23_OutputBuffer ==
    /\ [][/\ Len(samples') >= Len(samples)
          /\ SubSeq(samples', 1, Len(samples)) = samples]_vars
    /\ [](/\ (IsSome(sample_buf) /\ SelectedChannels > 0)
                => Len(samples) % SelectedChannels = 0
          /\ result.kind = "Ok"
                => /\ result.num_channels = SelectedChannels
                   /\ result.interleaved_samples = samples
                   /\ Len(samples) = result.num_frames * result.num_channels)

\* The write_sample calls made so far are in frame-major order, the channels of
\* a frame in their order: each call is for the sample that follows the one of
\* the call before, starting with channel 0 of frame 0.
FrameMajor(w, C) ==
    /\ Len(w) > 0 => w[1] = << 0, 0 >>
    /\ \A i \in 1 .. Len(w) - 1 :
          \/ w[i + 1][1] = w[i][1] /\ w[i + 1][2] = w[i][2] + 1 /\ w[i + 1][2] < C
          \/ w[i + 1][1] = w[i][1] + 1 /\ w[i + 1][2] = 0 /\ w[i][2] = C - 1

\* C24: the write_sample calls are made in frame-major order with no sample
\* skipped or repeated; when audio_write returns Ok there were exactly
\* num_frames * num_channels of them, one for every sample of the block, followed
\* by one finalize; and no write_sample call follows a finalization.
C24_WriteOrdering ==
    /\ [][(IsSome(writer) /\ Unwrap(writer).finalized /= << >>)
            => written' = written /\ last_write' = last_write]_vars
    /\ [](wpc /= "idle"
            => /\ FrameMajor(written, wargs.audio_block.num_channels)
               /\ IsSome(writer) => Unwrap(writer).samples = Len(written)
               /\ wresult = WriteOk
                     => /\ Len(written) = wargs.audio_block.num_frames
                                            * wargs.audio_block.num_channels
                        /\ \A f \in 0 .. wargs.audio_block.num_frames - 1 :
                           \A c \in 0 .. wargs.audio_block.num_channels - 1 :
                              \E i \in 1 .. Len(written) : written[i] = << f, c >>
                        /\ Unwrap(writer).finalized = << "finalize" >>)

\* C24 happens: a block of several frames of several channels was written.
C24_Witness ==
    /\ wpc = "done"
    /\ wresult = WriteOk
    /\ wargs.audio_block.num_channels > 1
    /\ wargs.audio_block.num_frames > 1
    /\ Len(written) > 3

\* C25: a packet of another track is not decoded and changes neither the
\* position, known or unknown, nor the validation state, nor the output buffer,
\* nor ends audio_read; and a run with such packets returns what the run on the
\* same stream without them returns (compared on streams of one-frame packets).
C25_ForeignPacketSkipped ==
    /\ [][foreign' > foreign
            => /\ calls'.decode = calls.decode
               /\ calls'.next_packet = calls.next_packet + 1
               /\ UNCHANGED << current_sample, sample_buf, num_channels, samples,
                               result, pc, epos >>]_vars
    /\ []((Ended /\ ValidFrameRange /\ OneFramePackets /\ foreign > 0)
            => result \in RunLoop(start_channel, end_channel, UnwrapOr(seek_pos, 0),
                                  None, << >>))

\* C25 happens: a run that met a packet of another track among several packets
\* of its track returned frames.
C25_Witness ==
    /\ pc = "done"
    /\ foreign > 0
    /\ calls.decode >= 2
    /\ result.kind = "Ok"
    /\ result.num_frames >= 2

\* audio_read has ended, whether by a return or by a panic.
Stopped == pc = "done" /\ result /= NoResult

\* audio_read has returned: a value or an error.
Returned == pc = "done" /\ result.kind \in {"Ok", "Err"}

\* What the decode engine can still deliver before the end of the stream:
\* frames, resets, packets of another track and packets with late timestamps.
EngineLeft == (total_frames - epos) + (MaxExtras - (resets + foreign + jittered))

\* C26: on a decode engine that delivers finitely many packets and resets and
\* then reports the end of the stream or an error, audio_read eventually
\* returns a value or an error; and each turn of the extraction loop that does
\* not leave audio_read has taken one more packet or reset from the engine.
C26_Termination ==
    /\ <>Returned
    /\ [][(pc = "loop" /\ pc' = "loop")
            => /\ calls'.next_packet = calls.next_packet + 1
               /\ EngineLeft' < EngineLeft
               /\ (epos' > epos \/ resets' > resets \/ foreign' > foreign)]_vars

====
